---- MODULE Spec2Model ----
(***************************************************************************)
(* A model of wot-serve: the URI-Template translator, the route compiler   *)
(* (build_servient), the advertiser's service builder and Servient.serve.  *)
(*                                                                         *)
(* Strings whose characters matter (hrefs, paths) are sequences of         *)
(* one-character strings; other strings are TLA+ strings.                  *)
(***************************************************************************)
EXTENDS Integers, Sequences, FiniteSets, TLC

VARIABLES
    uri,      \* translator run: the template handed to uritemplate_to_axum
    tpc,      \* translator run: "idle" | "start" | "translated" | "routed" | "panicked"
    href,     \* translator run: the outcome of uritemplate_to_axum(uri)
    trouter,  \* translator run: a fresh Router after routing href
    title,    \* ThingBuilder: the title given to Servient::builder
    forms,    \* ThingBuilder: the forms registered so far, in registration order
    other,    \* ThingBuilder: the root ServientExtension
    pc,       \* where build_servient / serve stands
    thing,    \* build_servient: the Thing that self.build() returned
    pending,  \* build_servient: the forms the routing loop has not visited yet
    router,   \* build_servient: the Router under construction
    json,     \* build_servient: serde_json::to_value(&thing)
    layered,  \* build_servient: the routes wrapped by the CorsLayer
    sd,       \* build_servient: the Advertiser
    result,   \* how build_servient ended: returned Ok, returned Err, or panicked
    servient, \* the Servient that build_servient returned
    mdns,     \* the service records registered with the mDNS daemon
    listener, \* serve: the HTTP listener
    binds,    \* ThingBuilder: the addresses http_bind was called with, in call order
    daemon,   \* Advertiser::new: "none" | "spawned", whether ServiceDaemon::new() ran
    servients, \* naming run: the Servients built so far (title, uuid, name)
    apc,      \* advertiser run: "idle" | "failed" | "ready" | "builder" | "registered" |
              \* "build_failed"
    detected, \* advertiser run: what hostname::get() returned to Advertiser::new
    sb,       \* advertiser run: the ServiceBuilder in hand
    given,    \* advertiser run: the last argument of each setter called on sb
    service,  \* advertiser run: the ServiceInfo the last build() created
    reg,      \* registry run: the registry (NilPlus / ConsPlus value)
    exts,     \* registry run: the values handed to ext, in call order
    stored,   \* registry run: the base data last stored through field_mut
    fb,       \* form run: the form builder in hand
    bound     \* form run: the http_* calls made on fb (verb, handler), in call order

tvars == <<uri, tpc, href, trouter>>

bvars == <<title, forms, other, pc, thing, pending, router, json, layered, sd, result,
           servient, mdns, listener, binds, daemon>>

nvars == <<servients>>

avars == <<apc, detected, sb, given, service>>

rvars == <<reg, exts, stored>>

fvars == <<fb, bound>>

vars == <<uri, tpc, href, trouter, title, forms, other, pc, thing, pending, router, json,
          layered, sd, result, servient, mdns, listener, binds, daemon, servients,
          apc, detected, sb, given, service, reg, exts, stored, fb, bound>>

(***************************************************************************)
(* Bounds.                                                                 *)
(***************************************************************************)
\* Templates of the translator run are concatenations of at most MaxParts pieces.
MaxParts == 3

\* A ThingBuilder registers at most MaxForms forms.
MaxForms == 2

\* http_bind is called at most MaxBinds times on a ThingBuilder.
MaxBinds == 2

\* At most MaxServients Servients are built in the naming run.
MaxServients == 2

\* At most MaxServices services are added to an Advertiser.
MaxServices == 2

\* At most MaxExts values are added to a registry.
MaxExts == 3

\* The longest sequence of http_* calls made on one form builder.
MaxCalls == 3

(***************************************************************************)
(* Sequence helpers.                                                       *)
(***************************************************************************)
RECURSIVE Concat(_)
Concat(ss) == IF ss = <<>> THEN <<>> ELSE Head(ss) \o Concat(Tail(ss))

Last(s) == s[Len(s)]

Front(s) == SubSeq(s, 1, Len(s) - 1)

Contains(s, ch) == \E i \in 1..Len(s) : s[i] = ch

\* Index of the first occurrence of ch in s (s contains ch).
FirstIndex(s, ch) == CHOOSE i \in 1..Len(s) : s[i] = ch /\ \A j \in 1..(i - 1) : s[j] # ch

\* str::split(sep): the pieces between separators; an empty string gives one empty piece.
RECURSIVE Split(_, _)
Split(s, sep) ==
    IF Contains(s, sep)
    THEN LET i == FirstIndex(s, sep)
         IN  <<SubSeq(s, 1, i - 1)>> \o Split(SubSeq(s, i + 1, Len(s)), sep)
    ELSE <<s>>

(***************************************************************************)
(* datta::UriTemplate::new, as used by uritemplate_to_axum: the template   *)
(* is cut into Literal and VarList components.                             *)
(***************************************************************************)
Literal(l) == [type |-> "Literal", l |-> l, op |-> "Null", varspec |-> <<>>]

VarList(op, varspec) == [type |-> "VarList", l |-> <<>>, op |-> op, varspec |-> varspec]

\* The operator a variable list starts with.
OperatorOf(ch) ==
    CASE ch = "+" -> "Plus"
      [] ch = "." -> "Dot"
      [] ch = "/" -> "Slash"
      [] ch = ";" -> "Semi"
      [] ch = "?" -> "Question"
      [] ch = "&" -> "Ampersand"
      [] ch = "#" -> "Hash"
      [] OTHER    -> "Null"

\* The name of one varspec: an explode modifier (*) or a prefix modifier (:n) is cut off.
VarSpecName(v) ==
    IF Len(v) >= 1 /\ Last(v) = "*" THEN Front(v)
    ELSE IF Contains(v, ":") THEN SubSeq(v, 1, FirstIndex(v, ":") - 1)
    ELSE v

parse_varlist(buf) ==
    IF buf = <<>> THEN VarList("Null", <<>>)
    ELSE LET op   == OperatorOf(buf[1])
             rest == IF op # "Null" THEN Tail(buf) ELSE buf
             specs == Split(rest, ",")
         IN  VarList(op, [i \in 1..Len(specs) |-> VarSpecName(specs[i])])

RECURSIVE ScanTemplate(_, _, _, _, _)
ScanTemplate(s, i, comps, buf, in_varlist) ==
    IF i > Len(s)
    THEN IF Len(buf) > 0 THEN Append(comps, Literal(buf)) ELSE comps
    ELSE IF in_varlist /\ s[i] = "}"
         THEN ScanTemplate(s, i + 1, Append(comps, parse_varlist(buf)), <<>>, FALSE)
    ELSE IF ~in_varlist /\ s[i] = "{"
         THEN ScanTemplate(s, i + 1,
                           IF Len(buf) > 0 THEN Append(comps, Literal(buf)) ELSE comps,
                           <<>>, TRUE)
    ELSE ScanTemplate(s, i + 1, comps, Append(buf, s[i]), in_varlist)

UriTemplateNew(s) == ScanTemplate(s, 1, <<>>, <<>>, FALSE)

(***************************************************************************)
(* uritemplate_to_axum.  The outcome is the returned path, or a panic      *)
(* (assert_eq! / panic!), which returns nothing.                           *)
(***************************************************************************)
Returned(path) == [panic |-> FALSE, path |-> path, msg |-> ""]

\* assert_eq!(varspec.len(), 1, ..) failed.
Panicked ==
    [panic |-> TRUE, path |-> <<>>,
     msg |-> "more than one variable in the expression is not supported."]

\* panic!("Unsupported operator")
Unsupported == [panic |-> TRUE, path |-> <<>>, msg |-> "Unsupported operator"]

\* NullArm without the ':' that marks a parameter.
NullArmNoMarker(path, varspec) ==
    IF Len(varspec) # 1 THEN Panicked
    ELSE Returned(path \o varspec[1])

\* NullArm without the assertion: the first variable is used, the others are dropped.
NullArmFirstOnly(path, varspec) ==
    IF varspec = <<>> THEN Panicked
    ELSE Returned(path \o <<":">> \o varspec[1])

\* Operator::Null arm: one variable becomes ":name"; any other count fails the assertion.
NullArm(path, varspec) ==
    IF Len(varspec) # 1 THEN Panicked
    ELSE Returned(path \o <<":">> \o varspec[1])

\* SlashArm that puts all the variables into one segment.
RECURSIVE SlashArmOneSegment(_, _)
SlashArmOneSegment(path, varspec) ==
    IF varspec = <<>> THEN Returned(path)
    ELSE SlashArmOneSegment(path \o (IF Len(path) > 0 /\ Last(path) = "/" THEN <<>> ELSE <<"/">>)
                                 \o <<":">> \o Head(varspec) \o <<"/">>, Tail(varspec))

\* Operator::Slash arm: "/:name" for every variable, in order.
RECURSIVE SlashArm(_, _)
SlashArm(path, varspec) ==
    IF varspec = <<>> THEN Returned(path)
    ELSE SlashArm(path \o <<"/", ":">> \o Head(varspec), Tail(varspec))

\* BreakArm that forgets the fragment operator.
BreakArmQuestionOnly(op) == op = "Question"

\* Operator::Question | Operator::Hash => break
BreakArm(op) == op \in {"Question", "Hash"}

\* UnsupportedArm that skips the expression instead of failing.
UnsupportedArmSkipped(path, varspec) == Returned(path)

\* Operator::Ampersand | Operator::Dot | Operator::Semi | Operator::Plus arm.
UnsupportedArm(path, varspec) == Unsupported

RECURSIVE TranslateFrom(_, _, _)
TranslateFrom(comps, i, path) ==
    IF i > Len(comps) THEN Returned(path)
    ELSE LET c == comps[i] IN
         IF c.type = "Literal" THEN TranslateFrom(comps, i + 1, path \o c.l)
         ELSE IF c.op = "Null"
              THEN LET r == NullArm(path, c.varspec)
                   IN  IF r.panic THEN r ELSE TranslateFrom(comps, i + 1, r.path)
         ELSE IF c.op = "Slash"
              THEN TranslateFrom(comps, i + 1, SlashArm(path, c.varspec).path)
         ELSE IF BreakArm(c.op) THEN Returned(path)
         ELSE LET r == UnsupportedArm(path, c.varspec)
              IN  IF r.panic THEN r ELSE TranslateFrom(comps, i + 1, r.path)

uritemplate_to_axum(s) == TranslateFrom(UriTemplateNew(s), 1, <<>>)

(***************************************************************************)
(* axum::Router.  A router maps a path pattern to a method router, which   *)
(* maps an HTTP verb to a handler.                                         *)
(***************************************************************************)
Verbs == {"GET", "PUT", "POST", "PATCH", "DELETE"}

\* Router::new()
EmptyRouter == <<>>

\* MethodRouter::merge_for_path on method routers that share no verb.
MethodRouterMerge(a, b) ==
    [v \in (DOMAIN a) \cup (DOMAIN b) |-> IF v \in DOMAIN a THEN a[v] ELSE b[v]]

\* MethodRouter::default(): no verb is bound.
MethodRouterNew == <<>>

\* A method router that keeps nothing of the one it was called on.
MethodRouter_on_fresh(mr, verb, handler) ==
    [panic |-> FALSE, method_router |-> [v \in {verb} |-> handler]]

\* MethodRouter::on(filter, handler), which get, put, post, patch and delete call with
\* their own filter: panics ("Overlapping method route") when the verb is bound already,
\* otherwise binds the verb and keeps every other binding.
MethodRouter_on(mr, verb, handler) ==
    IF verb \in DOMAIN mr
    THEN [panic |-> TRUE, method_router |-> MethodRouterNew]
    ELSE [panic |-> FALSE,
          method_router |-> [v \in (DOMAIN mr) \cup {verb} |->
                                IF v = verb THEN handler ELSE mr[v]]]

\* matchit's insert: a parameter starts at ':' and runs to the next '/'; it needs a
\* name and its segment holds no second wildcard.
ValidParams(path) ==
    \A i \in 1..Len(path) :
        path[i] = ":" =>
            /\ i < Len(path)
            /\ path[i + 1] # "/"
            /\ \A j \in (i + 1)..Len(path) :
                   (\A k \in (i + 1)..(j - 1) : path[k] # "/") => path[j] \notin {":", "*"}

\* Router::route(path, method_router): panics on a path that does not start with "/",
\* on a pattern matchit rejects, and on a verb the path already handles; merges the
\* method router into an existing entry of the same path.
route(r, path, method_router) ==
    IF path = <<>> \/ path[1] # "/" THEN [panic |-> TRUE, router |-> r]
    ELSE IF path \in DOMAIN r
         THEN IF (DOMAIN r[path]) \cap (DOMAIN method_router) # {}
              THEN [panic |-> TRUE, router |-> r]
              ELSE [panic |-> FALSE,
                    router |-> [r EXCEPT ![path] = MethodRouterMerge(@, method_router)]]
    ELSE IF ~ValidParams(path) THEN [panic |-> TRUE, router |-> r]
    ELSE [panic |-> FALSE,
          router |-> [p \in (DOMAIN r) \cup {path} |->
                         IF p = path THEN method_router ELSE r[p]]]

(***************************************************************************)
(* Handlers.                                                               *)
(***************************************************************************)
NoDoc == [title |-> <<>>, forms |-> <<>>, properties |-> <<>>, actions |-> <<>>,
          events |-> <<>>]

\* The handler the application bound on a form with http_get, http_put, ...
FormHandler(id, verb) == [kind |-> "form", form |-> id, verb |-> verb, doc |-> NoDoc]

\* move || async { axum::Json(json) }
JsonHandler(doc) == [kind |-> "json", form |-> 0, verb |-> "GET", doc |-> doc]

\* move || async { Redirect::to("/") }
RedirectToRoot == [kind |-> "redirect:/", form |-> 0, verb |-> "GET", doc |-> NoDoc]

(***************************************************************************)
(* Advertiser and ServiceBuilder (advertise.rs).                           *)
(***************************************************************************)
DefaultPort == 8080

DefaultHttpPort == 8080

WELL_KNOWN == <<"/",".","w","e","l","l","-","k","n","o","w","n","/","w","o","t">>

DotLocal == <<".","l","o","c","a","l">>

\* str::ends_with
EndsWith(s, suffix) ==
    /\ Len(s) >= Len(suffix)
    /\ SubSeq(s, Len(s) - Len(suffix) + 1, Len(s)) = suffix

\* What hostname::get() and if_addrs::get_if_addrs() can report on the host.
DetectedHostnames == {<<"h">>, <<"h">> \o DotLocal}

DetectedIps == <<"192.168.0.2">>

NoAdvertiser == [running |-> FALSE, hostname |-> <<>>, ips |-> <<>>]

\* AdvertiserNew that appends ".local" whatever the hostname ends with.
AdvertiserNewAppending(host) ==
    [running |-> TRUE, hostname |-> host \o DotLocal, ips |-> DetectedIps]

\* Advertiser::new() on a host named host: the daemon runs, the hostname is
\* normalized, the addresses are the host's non-loopback IPv4 addresses.
AdvertiserNew(host) ==
    [running  |-> TRUE,
     hostname |-> IF EndsWith(host, DotLocal) THEN host ELSE host \o DotLocal,
     ips      |-> DetectedIps]

\* Where Advertiser::new() can fail: ServiceDaemon::new()?, hostname::get()?,
\* if_addrs::get_if_addrs()?.
AdvertiserFailures == {"daemon", "hostname", "ips"}

\* Advertiser::new() on a host named host, failing at fails ("none": it succeeds).
\* The daemon is spawned by the first statement, before the other two can fail.
Advertiser_new(host, fails) ==
    [ok      |-> fails = "none",
     spawned |-> fails # "daemon",
     ad      |-> IF fails = "none" THEN AdvertiserNew(host) ELSE NoAdvertiser]

\* to_service_type without the directory subtype.
to_service_type_base(ty) == "_wot"

to_service_type(ty) == IF ty = "Directory" THEN "_directory._sub._wot" ELSE "_wot"

to_dns_type(ty) == IF ty = "Directory" THEN "Directory" ELSE "Thing"

\* Advertiser::add_service(name) = ServiceBuilder::new(ad, name)
add_service(ad, name) ==
    [name |-> name, ips |-> ad.ips, hostname |-> ad.hostname, ty |-> "Thing",
     port |-> DefaultPort, path |-> WELL_KNOWN]

ServiceBuilder_thing_type(b, ty) == [b EXCEPT !.ty = ty]

ServiceBuilder_port(b, port) == [b EXCEPT !.port = port]

\* ServiceBuilder::path that leaves the default path in place.
ServiceBuilder_path_ignored(b, path) == b

ServiceBuilder_path(b, path) == [b EXCEPT !.path = path]

ServiceBuilder_hostname(b, host) == [b EXCEPT !.hostname = host]

ServiceBuilder_ips(b, ips) == [b EXCEPT !.ips = ips]

\* The ServiceInfo that ServiceBuilder::build hands to the daemon.
ServiceInfoOf(b) ==
    [domain   |-> <<to_service_type(b.ty), "._tcp.local.">>,
     name     |-> b.name,
     hostname |-> b.hostname,
     ips      |-> b.ips,
     port     |-> b.port,
     props    |-> [k \in {"td", "type"} |->
                      IF k = "td" THEN <<"path", b.path>> ELSE <<"type", to_dns_type(b.ty)>>]]

\* ServiceBuilder::build without the registration: Ok(()) is returned all the same.
ServiceBuilder_build_unregistered(registered, b, ok) ==
    [ok |-> ok, registered |-> registered]

\* ServiceBuilder::build: ServiceInfo::new(..)? and mdns.register(service)? both
\* succeed (ok) and the record is registered, or one of them fails and Err is returned.
ServiceBuilder_build(registered, b, ok) ==
    IF ok THEN [ok |-> TRUE, registered |-> registered \cup {ServiceInfoOf(b)}]
    ELSE [ok |-> FALSE, registered |-> registered]

\* No ServiceBuilder in hand, no setter called, no ServiceInfo created.
NoBuilder ==
    [name |-> <<>>, ips |-> <<>>, hostname |-> <<>>, ty |-> "Thing", port |-> 0,
     path |-> <<>>]

NoGiven == [ty |-> <<>>, port |-> <<>>, path |-> <<>>, hostname |-> <<>>, ips |-> <<>>]

NoService ==
    [domain |-> <<"", "">>, name |-> <<>>, hostname |-> <<>>, ips |-> <<>>, port |-> 0,
     props |-> [k \in {"td", "type"} |-> IF k = "td" THEN <<"path", <<>>>> ELSE <<"type", "">>]]

(***************************************************************************)
(* The capability registry (hlist.rs): NilPlus<T> holds the base field,    *)
(* ConsPlus<T, U, V> the base field and the chain Cons<U, V>.  A registry  *)
(* value is its field and the values of its chain, head first; a value is  *)
(* its type and its data.                                                  *)
(***************************************************************************)
BaseType == "ServientExtension"

ExtTypes == {"ServientExtension", "A", "B"}

Data == {0, 1}

ExtValues == [ty : ExtTypes, data : Data]

\* Extendable::empty(): NilPlus { field: Default::default() }
empty == [field |-> [ty |-> BaseType, data |-> 0], cons |-> <<>>]

\* wot_td's Nil::cons(value) and Cons::cons(self, value): the value becomes the head.
Nil_cons(value) == <<value>>

Cons_cons(c, value) == <<value>> \o c

\* NilPlus::cons / ConsPlus::cons
cons(r, value) ==
    [field |-> r.field,
     cons  |-> IF r.cons = <<>> THEN Nil_cons(value) ELSE Cons_cons(r.cons, value)]

\* ext that starts a new chain from the value and forgets the earlier ones.
ext_forgetting(r, u) == [field |-> r.field, cons |-> Nil_cons(u)]

\* Extend<U> for NilPlus<T> and Extend<Z> for ConsPlus<T, U, V>: any value type is
\* accepted.
ext(r, u) ==
    IF r.cons = <<>> THEN [field |-> r.field, cons |-> Nil_cons(u)] ELSE cons(r, u)

\* The type of a registry value: T and the types of the chain, head first.
TypeOf(r) == [field |-> r.field.ty, cons |-> [i \in 1..Len(r.cons) |-> r.cons[i].ty]]

\* impl<T> Holder<T> for NilPlus<T>, impl<T, U, V> Holder<T> for ConsPlus<T, U, V>:
\* the only implementations are those for the type of the field.
HolderImpl(rt, ty) == ty = rt.field

\* Holder::field_ref for the type ty: Some(&self.field), None where Holder<ty> is not
\* implemented (the call does not compile).
field_ref(r, ty) == IF HolderImpl(TypeOf(r), ty) THEN <<r.field>> ELSE <<>>

\* *Holder::field_mut() = data, for the type of the field.
field_mut(r, d) == [r EXCEPT !.field.data = d]

Positions ==
    {"InteractionAffordance", "PropertyAffordance", "ActionAffordance", "EventAffordance",
     "Form", "ExpectedResponse", "DataSchema", "ObjectSchema", "ArraySchema"}

\* The payload type an extension contributes to a position: those of ServientExtension
\* as declared, those of the other extensions one type of their own per position.
Assoc(e, p) ==
    IF e = "ServientExtension"
    THEN CASE p = "Form" -> <<"servient", "Form">>
           [] p = "ExpectedResponse" -> <<"http", "Response">>
           [] OTHER -> <<"()", "()">>
    ELSE <<e, p>>

\* wot_td's ExtendableThing for Nil and Cons<T, U>: each element contributes its
\* payload for the position.
ListAt(v, p) == [list |-> TRUE, items |-> [i \in 1..Len(v) |-> Assoc(v[i], p)]]

\* A payload type written where the rest of the chain is expected.
PayloadAsTail(t) == [list |-> FALSE, items |-> <<t>>]

NilPlusT(t) == [plus |-> "NilPlus", field |-> t, head |-> <<>>, tail |-> ListAt(<<>>, "")]

ConsPlusT(t, u, v) == [plus |-> "ConsPlus", field |-> t, head |-> <<u>>, tail |-> v]

\* ExtendableThing for NilPlus<T> and for ConsPlus<T, U, V>: the type at position p.
PositionType(rt, p) ==
    IF rt.cons = <<>> THEN NilPlusT(Assoc(rt.field, p))
    ELSE LET T == rt.field
             U == Head(rt.cons)
             V == Tail(rt.cons)
         IN  CASE p = "InteractionAffordance" ->
                      ConsPlusT(Assoc(T, "InteractionAffordance"),
                                Assoc(U, "InteractionAffordance"),
                                ListAt(V, "InteractionAffordance"))
               [] p = "PropertyAffordance" ->
                      ConsPlusT(Assoc(T, "PropertyAffordance"),
                                Assoc(U, "PropertyAffordance"),
                                ListAt(V, "InteractionAffordance"))
               [] p = "ActionAffordance" ->
                      ConsPlusT(Assoc(T, "ActionAffordance"), Assoc(U, "ActionAffordance"),
                                ListAt(V, "ActionAffordance"))
               [] p = "EventAffordance" ->
                      ConsPlusT(Assoc(T, "EventAffordance"), Assoc(U, "EventAffordance"),
                                ListAt(V, "EventAffordance"))
               [] p = "Form" ->
                      ConsPlusT(Assoc(T, "Form"), Assoc(U, "Form"), ListAt(V, "Form"))
               [] p = "ExpectedResponse" ->
                      ConsPlusT(Assoc(T, "ExpectedResponse"), Assoc(U, "ExpectedResponse"),
                                ListAt(V, "ExpectedResponse"))
               [] p = "DataSchema" ->
                      ConsPlusT(Assoc(T, "DataSchema"), Assoc(U, "DataSchema"),
                                ListAt(V, "DataSchema"))
               [] p = "ObjectSchema" ->
                      ConsPlusT(Assoc(T, "ObjectSchema"), Assoc(U, "ObjectSchema"),
                                ListAt(V, "ObjectSchema"))
               [] p = "ArraySchema" ->
                      ConsPlusT(Assoc(T, "ArraySchema"), Assoc(U, "ArraySchema"),
                                PayloadAsTail(Assoc(U, "ArraySchema")))

(***************************************************************************)
(* The ThingBuilder extended with ServientExtension, and the forms the     *)
(* application registers on it.                                            *)
(***************************************************************************)
Root == <<"/">>

\* Option<T>: None is <<>>, Some(x) is <<x>>.
None == <<>>

Some(x) == <<x>>

\* ServientExtension::default()
DefaultServientExtension == [addr |-> None, thing_type |-> "Thing", permissive_cors |-> TRUE]

\* The addresses http_bind is called with.
BindAddrs == {[ip |-> "127.0.0.1", port |-> 3000], [ip |-> "0.0.0.0", port |-> 8081]}

ThingTypes == {"Thing", "Directory"}

\* A form: its href, the method router built by the http_* calls (the verbs bound and
\* their handlers) and the method name the last http_* call left in htv.
FormOf(id, kind, hrefOf, verbs, method_name) ==
    [id |-> id, kind |-> kind, href |-> hrefOf,
     method_router |-> [v \in verbs |-> FormHandler(id, v)],
     method_name |-> method_name]

\* The forms an application registers: top-level forms and forms of property, action
\* and event affordances (one affordance per form).
FormPool ==
    { FormOf(1, "thing", <<"/", "a", "{", "/", "b", "}">>, {"GET"}, "GET"),
      FormOf(2, "property", <<"/", "a", "{", "/", "b", "}", "{", "?", "q", "}">>,
             {"PUT"}, "PUT"),
      FormOf(3, "action", <<"/", "a", "/", "{", "b", "}">>, {"GET", "POST"}, "POST"),
      FormOf(4, "event", <<"/", "c">>, {}, "None"),
      FormOf(5, "property", Root, {"PUT"}, "PUT"),
      FormOf(6, "thing", Root, {"GET"}, "GET"),
      FormOf(7, "action", WELL_KNOWN, {"DELETE"}, "DELETE"),
      FormOf(8, "event", WELL_KNOWN, {"GET"}, "GET"),
      FormOf(9, "property", <<"/", "a", "/", "{", "a", ",", "b", "}">>, {"GET"}, "GET"),
      FormOf(10, "action", <<"/", "a", "{", ".", "b", "}">>, {"PATCH"}, "PATCH"),
      FormOf(11, "thing", <<"c">>, {"GET"}, "GET"),
      FormOf(12, "event", <<"/", "a", "{", "/", "b", "}">>, {"PATCH"}, "PATCH") }

\* The handlers an application passes to the http_* calls.
Handlers == {"reading", "writing"}

\* The form builder the closure of .form(..) receives: Form::default() in its registry,
\* no verb bound and no method name.
FormBuilderNew ==
    [wrapper |-> "FormBuilder", alive |-> TRUE, method_router |-> MethodRouterNew,
     method_name |-> "None"]

\* The form builder after an http_* call panicked: it was moved into the call and is
\* dropped by the unwinding.
FormBuilderDropped ==
    [wrapper |-> "FormBuilder", alive |-> FALSE, method_router |-> MethodRouterNew,
     method_name |-> "None"]

\* The tail of each http_* function: the new method router is stored in the Form of
\* the builder's registry, htv.method_name is set and the builder is wrapped.
HttpRouted(b, o, verb) ==
    IF o.panic
    THEN FormBuilderDropped
    ELSE [wrapper |-> "ServientFormBuilder", alive |-> TRUE,
          method_router |-> o.method_router, method_name |-> verb]

\* HttpRouter::http_get: the method router is taken out of the Form, GET is bound on it.
http_get(b, handler) == HttpRouted(b, MethodRouter_on(b.method_router, "GET", handler), "GET")

\* HttpRouter::http_put
http_put(b, handler) == HttpRouted(b, MethodRouter_on(b.method_router, "PUT", handler), "PUT")

\* HttpRouter::http_post
http_post(b, handler) ==
    HttpRouted(b, MethodRouter_on(b.method_router, "POST", handler), "POST")

\* HttpRouter::http_patch
http_patch(b, handler) ==
    HttpRouted(b, MethodRouter_on(b.method_router, "PATCH", handler), "PATCH")

\* HttpRouter::http_delete
http_delete(b, handler) ==
    HttpRouted(b, MethodRouter_on(b.method_router, "DELETE", handler), "DELETE")

\* FormBuilder::from(ServientFormBuilder): the wrapped builder, unchanged.
FormBuilder_from(b) == [b EXCEPT !.wrapper = "FormBuilder"]

Uuids == {<<"1">>, <<"2">>, <<"3">>}

ThingTitle == <<"M", "y", " ", "L", "a", "m", "p">>

NoThing == [title |-> <<>>, forms |-> <<>>, other |-> DefaultServientExtension]

NoResult == [kind |-> "none", step |-> "none"]

NoServient ==
    [name |-> <<>>, thing |-> NoThing, router |-> EmptyRouter, layered |-> {},
     sd |-> NoAdvertiser, http_addr |-> [ip |-> "", port |-> 0], thing_type |-> "Thing"]

\* Servient::builder(title).finish_extend()
BuilderNew ==
    /\ title = ThingTitle
    /\ forms = <<>>
    /\ other = DefaultServientExtension
    /\ pc = "assemble"
    /\ thing = NoThing
    /\ pending = {}
    /\ router = EmptyRouter
    /\ json = NoDoc
    /\ layered = {}
    /\ sd = NoAdvertiser
    /\ result = NoResult
    /\ servient = NoServient
    /\ mdns = {}
    /\ listener = "none"
    /\ binds = <<>>
    /\ daemon = "none"

\* The naming run, the advertiser run, the registry run and the form run have not
\* started.
NamingIdle == servients = <<>>

AdvertiserIdle ==
    /\ apc = "idle"
    /\ detected = <<>>
    /\ sb = NoBuilder
    /\ given = NoGiven
    /\ service = NoService

RegistryIdle ==
    /\ reg = empty
    /\ exts = <<>>
    /\ stored = 0

FormIdle ==
    /\ fb = FormBuilderNew
    /\ bound = <<>>

\* .form(..) on the builder or on an affordance builder.
form(f) ==
    /\ pc = "assemble"
    /\ Len(forms) < MaxForms
    /\ forms' = Append(forms, f)
    /\ UNCHANGED <<title, other, pc, thing, pending, router, json, layered, sd, result,
                   servient, mdns, listener>>
    /\ UNCHANGED <<binds, daemon>>
    /\ UNCHANGED <<tvars, nvars, avars, rvars, fvars>>

http_bind(addr) ==
    /\ pc = "assemble"
    /\ Len(binds) < MaxBinds
    /\ other' = [other EXCEPT !.addr = Some(addr)]
    /\ binds' = Append(binds, addr)
    /\ UNCHANGED <<title, forms, pc, thing, pending, router, json, layered, sd, result,
                   servient, mdns, listener>>
    /\ UNCHANGED daemon
    /\ UNCHANGED <<tvars, nvars, avars, rvars, fvars>>

thing_type(ty) ==
    /\ pc = "assemble"
    /\ other' = [other EXCEPT !.thing_type = ty]
    /\ UNCHANGED <<title, forms, pc, thing, pending, router, json, layered, sd, result,
                   servient, mdns, listener>>
    /\ UNCHANGED <<binds, daemon>>
    /\ UNCHANGED <<tvars, nvars, avars, rvars, fvars>>

http_disable_permissive_cors ==
    /\ pc = "assemble"
    /\ other' = [other EXCEPT !.permissive_cors = FALSE]
    /\ UNCHANGED <<title, forms, pc, thing, pending, router, json, layered, sd, result,
                   servient, mdns, listener>>
    /\ UNCHANGED <<binds, daemon>>
    /\ UNCHANGED <<tvars, nvars, avars, rvars, fvars>>

(***************************************************************************)
(* build_servient, statement by statement.                                 *)
(***************************************************************************)
Failed(kind, step) ==
    /\ result' = [kind |-> kind, step |-> step]
    /\ pc' = "done"

\* build with the advertiser's daemon spawned at the start of build_servient.
build_spawning ==
    /\ pc = "assemble"
    /\ \E ok \in BOOLEAN :
          IF ok
          THEN /\ thing' = [title |-> title, forms |-> forms, other |-> other]
               /\ pending' = 1..Len(forms)
               /\ router' = EmptyRouter
               /\ pc' = "route"
               /\ UNCHANGED result
          ELSE /\ Failed("err", "build")
               /\ UNCHANGED <<thing, pending, router>>
    /\ daemon' = "spawned"
    /\ UNCHANGED <<title, forms, other, json, layered, sd, servient, mdns, listener, binds>>
    /\ UNCHANGED <<tvars, nvars, avars, rvars, fvars>>

\* let thing = self.build()?;  let mut router = Router::new();
build ==
    /\ pc = "assemble"
    /\ \E ok \in BOOLEAN :
          IF ok
          THEN /\ thing' = [title |-> title, forms |-> forms, other |-> other]
               /\ pending' = 1..Len(forms)
               /\ router' = EmptyRouter
               /\ pc' = "route"
               /\ UNCHANGED result
          ELSE /\ Failed("err", "build")
               /\ UNCHANGED <<thing, pending, router>>
    /\ UNCHANGED <<title, forms, other, json, layered, sd, servient, mdns, listener>>
    /\ UNCHANGED <<binds, daemon>>
    /\ UNCHANGED <<tvars, nvars, avars, rvars, fvars>>

KindRank(kind) ==
    CASE kind = "thing" -> 1 [] kind = "property" -> 2 [] kind = "action" -> 3
      [] OTHER -> 4

\* The forms the chained iterator can yield next: the top-level forms in order, then
\* the forms of the properties, of the actions and of the events; the affordances of
\* one kind are the values of a HashMap, visited in any order.
NextForms(fs, left) ==
    {i \in left :
        /\ \A j \in left : KindRank(fs[i].kind) <= KindRank(fs[j].kind)
        /\ fs[i].kind = "thing" => \A j \in left : fs[j].kind = "thing" => i <= j}

\* The loop body of the earlier build_servient: the form is routed under its href as
\* written, without translation.
RouteFormUntranslated(r, f) ==
    LET o == route(r, f.href, f.method_router)
    IN  [panic |-> o.panic, step |-> "route", router |-> o.router]

\* The body of the loop for one form: the href is translated and the form's method
\* router is routed under it.
RouteForm(r, f) ==
    LET h == uritemplate_to_axum(f.href)
    IN  IF h.panic THEN [panic |-> TRUE, step |-> "translate", router |-> r]
        ELSE LET o == route(r, h.path, f.method_router)
             IN  [panic |-> o.panic, step |-> "route", router |-> o.router]

route_form ==
    /\ pc = "route"
    /\ pending # {}
    /\ \E i \in NextForms(thing.forms, pending) :
          LET o == RouteForm(router, thing.forms[i])
          IN  IF o.panic
              THEN /\ Failed("panic", o.step)
                   /\ UNCHANGED <<pending, router>>
              ELSE /\ router' = o.router
                   /\ pending' = pending \ {i}
                   /\ UNCHANGED <<pc, result>>
    /\ UNCHANGED <<title, forms, other, thing, json, layered, sd, servient, mdns, listener>>
    /\ UNCHANGED <<binds, daemon>>
    /\ UNCHANGED <<tvars, nvars, avars, rvars, fvars>>

\* The document form of one form: method_router is skipped, htv is flattened.
DocForm(f) == [href |-> f.href, method_name |-> f.method_name]

DocForms(fs, kind) ==
    LET sel == SelectSeq(fs, LAMBDA f : f.kind = kind)
    IN  [i \in 1..Len(sel) |-> DocForm(sel[i])]

\* to_value that leaves the events out of the document.
to_value_without_events(t) ==
    [title      |-> t.title,
     forms      |-> DocForms(t.forms, "thing"),
     properties |-> DocForms(t.forms, "property"),
     actions    |-> DocForms(t.forms, "action"),
     events     |-> <<>>]

\* serde_json::to_value(&thing): the fields of ServientExtension are skipped.
to_value(t) ==
    [title      |-> t.title,
     forms      |-> DocForms(t.forms, "thing"),
     properties |-> DocForms(t.forms, "property"),
     actions    |-> DocForms(t.forms, "action"),
     events     |-> DocForms(t.forms, "event")]

\* let json = serde_json::to_value(&thing)?;
serialize ==
    /\ pc = "route"
    /\ pending = {}
    /\ \E ok \in BOOLEAN :
          IF ok
          THEN /\ json' = to_value(thing)
               /\ pc' = "root"
               /\ UNCHANGED result
          ELSE /\ Failed("err", "serialize")
               /\ UNCHANGED json
    /\ UNCHANGED <<title, forms, other, thing, pending, router, layered, sd, servient,
                   mdns, listener>>
    /\ UNCHANGED <<binds, daemon>>
    /\ UNCHANGED <<tvars, nvars, avars, rvars, fvars>>

\* router.route("/", axum::routing::get(move || async { axum::Json(json) }))
RootRoute(r, doc) == route(r, Root, [v \in {"GET"} |-> JsonHandler(doc)])

route_root ==
    /\ pc = "root"
    /\ LET o == RootRoute(router, json)
       IN  IF o.panic
           THEN /\ Failed("panic", "root")
                /\ UNCHANGED router
           ELSE /\ router' = o.router
                /\ pc' = "well_known"
                /\ UNCHANGED result
    /\ UNCHANGED <<title, forms, other, thing, pending, json, layered, sd, servient, mdns,
                   listener>>
    /\ UNCHANGED <<binds, daemon>>
    /\ UNCHANGED <<tvars, nvars, avars, rvars, fvars>>

\* The redirect left out.
WellKnownRouteMissing(r) == [panic |-> FALSE, router |-> r]

\* router.route("/.well-known/wot", axum::routing::get(move || async { Redirect::to("/") }))
WellKnownRoute(r) == route(r, WELL_KNOWN, [v \in {"GET"} |-> RedirectToRoot])

route_well_known ==
    /\ pc = "well_known"
    /\ LET o == WellKnownRoute(router)
       IN  IF o.panic
           THEN /\ Failed("panic", "well_known")
                /\ UNCHANGED router
           ELSE /\ router' = o.router
                /\ pc' = "cors"
                /\ UNCHANGED result
    /\ UNCHANGED <<title, forms, other, thing, pending, json, layered, sd, servient, mdns,
                   listener>>
    /\ UNCHANGED <<binds, daemon>>
    /\ UNCHANGED <<tvars, nvars, avars, rvars, fvars>>

\* The layer put on the form routes only.
CorsLayerOnForms(r, se) ==
    IF se.permissive_cors THEN (DOMAIN r) \ {Root, WELL_KNOWN} ELSE {}

\* if thing.other.field_ref().permissive_cors { router = router.layer(cors); }:
\* Router::layer wraps every route the router holds at that point.
CorsLayer(r, se) == IF se.permissive_cors THEN DOMAIN r ELSE {}

layer_cors ==
    /\ pc = "cors"
    /\ layered' = CorsLayer(router, thing.other)
    /\ pc' = "advertiser"
    /\ UNCHANGED <<title, forms, other, thing, pending, router, json, sd, result, servient,
                   mdns, listener>>
    /\ UNCHANGED <<binds, daemon>>
    /\ UNCHANGED <<tvars, nvars, avars, rvars, fvars>>

\* let sd = Advertiser::new()?;
advertiser_new ==
    /\ pc = "advertiser"
    /\ \E host \in DetectedHostnames, fails \in AdvertiserFailures \cup {"none"} :
          LET o == Advertiser_new(host, fails)
          IN  /\ daemon' = IF o.spawned THEN "spawned" ELSE daemon
              /\ IF o.ok
                 THEN /\ sd' = o.ad
                      /\ pc' = "finish"
                      /\ UNCHANGED result
                 ELSE /\ Failed("err", "advertiser")
                      /\ UNCHANGED sd
    /\ UNCHANGED <<title, forms, other, thing, pending, router, json, layered, servient,
                   mdns, listener>>
    /\ UNCHANGED binds
    /\ UNCHANGED <<tvars, nvars, avars, rvars, fvars>>

IsWhitespace(ch) == ch \in {" ", "\t", "\n"}

\* char::to_lowercase on the letters of the titles.
ToLowerChar(ch) ==
    CASE ch = "M" -> "m" [] ch = "L" -> "l" [] ch = "Y" -> "y" [] ch = "A" -> "a"
      [] ch = "P" -> "p" [] OTHER -> ch

to_lowercase(s) == [i \in 1..Len(s) |-> ToLowerChar(s[i])]

\* split_whitespace().next().unwrap_or("")
RECURSIVE FirstToken(_)
FirstToken(s) ==
    IF s = <<>> THEN <<>>
    ELSE IF IsWhitespace(Head(s)) THEN FirstToken(Tail(s))
    ELSE IF \E i \in 1..Len(s) : IsWhitespace(s[i])
         THEN SubSeq(s, 1, (CHOOSE i \in 1..Len(s) :
                               IsWhitespace(s[i]) /\ \A j \in 1..(i - 1) : ~IsWhitespace(s[j])) - 1)
    ELSE s

\* The name without the identifier.
InstanceNameOfTitle(t, uuid) == to_lowercase(FirstToken(t))

\* format!("{}{}", name, uuid.as_simple())
InstanceName(t, uuid) == to_lowercase(FirstToken(t)) \o uuid

\* HttpAddr that never looks at the configured address.
HttpAddrDefault(se) == [ip |-> "0.0.0.0", port |-> DefaultHttpPort]

\* thing.other.field_ref().addr.unwrap_or_else(|| "0.0.0.0:8080".parse().unwrap())
HttpAddr(se) ==
    IF se.addr = None THEN [ip |-> "0.0.0.0", port |-> DefaultHttpPort] ELSE se.addr[1]

\* The name, the address, the thing type and Ok(Servient { .. }).
finish ==
    /\ pc = "finish"
    /\ \E uuid \in Uuids :
          servient' = [name |-> InstanceName(thing.title, uuid), thing |-> thing,
                       router |-> router, layered |-> layered, sd |-> sd,
                       http_addr |-> HttpAddr(thing.other),
                       thing_type |-> thing.other.thing_type]
    /\ result' = [kind |-> "ok", step |-> "none"]
    /\ pc' = "built"
    /\ UNCHANGED <<title, forms, other, thing, pending, router, json, layered, sd, mdns,
                   listener>>
    /\ UNCHANGED <<binds, daemon>>
    /\ UNCHANGED <<tvars, nvars, avars, rvars, fvars>>

(***************************************************************************)
(* Servient::serve.                                                        *)
(***************************************************************************)
\* self.sd.add_service(&self.name).thing_type(self.thing_type)
\*     .port(self.http_addr.port()).build()?;
serve_advertise ==
    /\ pc = "built"
    /\ \E ok \in BOOLEAN :
          LET b  == ServiceBuilder_port(
                        ServiceBuilder_thing_type(add_service(servient.sd, servient.name),
                                                  servient.thing_type),
                        servient.http_addr.port)
              o  == ServiceBuilder_build(mdns, b, ok)
          IN  /\ mdns' = o.registered
              /\ pc' = IF o.ok THEN "advertised" ELSE "serve_failed"
    /\ UNCHANGED <<title, forms, other, thing, pending, router, json, layered, sd, result,
                   servient, listener>>
    /\ UNCHANGED <<binds, daemon>>
    /\ UNCHANGED <<tvars, nvars, avars, rvars, fvars>>

\* axum::Server::bind(&self.http_addr).serve(self.router.clone().into_make_service()).await?;
serve_listen ==
    /\ pc = "advertised"
    /\ \E ok \in BOOLEAN :
          /\ listener' = IF ok THEN "listening" ELSE "failed"
          /\ pc' = IF ok THEN "serving" ELSE "serve_failed"
    /\ UNCHANGED <<title, forms, other, thing, pending, router, json, layered, sd, result,
                   servient, mdns>>
    /\ UNCHANGED <<binds, daemon>>
    /\ UNCHANGED <<tvars, nvars, avars, rvars, fvars>>

(***************************************************************************)
(* The translator run: one template is translated and routed on a fresh    *)
(* router, as one pass of the loop of build_servient does.                 *)
(***************************************************************************)
Pieces ==
    { <<"/">>, <<"/", "a">>, <<"b">>,
      <<"{", "a", "}">>, <<"{", "b", "}">>, <<"{", "a", ",", "b", "}">>,
      <<"{", "/", "a", "}">>, <<"{", "/", "b", ",", "a", "}">>,
      <<"{", "?", "a", ",", "b", "}">>, <<"{", "#", "a", "}">>,
      <<"{", ".", "a", "}">>, <<"{", "+", "a", "}">>,
      <<"{", ";", "a", "}">>, <<"{", "&", "a", "}">>,
      <<"{", "a", "*", "}">>, <<"{", "/", "b", ":", "3", "}">>,
      <<"{">>, <<"}">>, <<"{", "}">> }

\* The hrefs of the unit tests of uritemplate_to_axum.
PlainUri == <<"/","p","r","o","p","e","r","t","i","e","s","/","o","n">>

HierarchicalUri ==
    <<"/","p","r","o","p","e","r","t","i","e","s","{","/","p","r","o","p",",","s","u","b","}">>

TemplatedUri ==
    <<"/","a","c","t","i","o","n","s","/","f","a","d","e","/","{","a","c","t","i","o","n","_","i","d","}">>

QueryUri ==
    <<"/","w","e","a","t","h","e","r","/","{","?","l","a","t",",","l","o","n","g","}">>

TestUris == {PlainUri, HierarchicalUri, TemplatedUri, QueryUri}

Templates ==
    {Concat(ps) : ps \in UNION {[1..n -> Pieces] : n \in 0..MaxParts}} \cup TestUris

NoOutcome == [panic |-> FALSE, path |-> <<>>, msg |-> ""]

NoRoute == [panic |-> FALSE, router |-> EmptyRouter]

InitT ==
    /\ uri \in Templates
    /\ tpc = "start"
    /\ href = NoOutcome
    /\ trouter = NoRoute
    /\ BuilderNew
    /\ NamingIdle
    /\ AdvertiserIdle
    /\ RegistryIdle
    /\ FormIdle

\* let href = uritemplate_to_axum(&form.href);
Translate ==
    /\ tpc = "start"
    /\ href' = uritemplate_to_axum(uri)
    /\ tpc' = IF href'.panic THEN "panicked" ELSE "translated"
    /\ UNCHANGED <<uri, trouter>>
    /\ UNCHANGED <<bvars, nvars, avars, rvars, fvars>>

\* router = router.route(&href, route.method_router.clone());
RouteOne ==
    /\ tpc = "translated"
    /\ trouter' = route(EmptyRouter, href.path, [v \in {"GET"} |-> FormHandler(1, v)])
    /\ tpc' = IF trouter'.panic THEN "panicked" ELSE "routed"
    /\ UNCHANGED <<uri, href>>
    /\ UNCHANGED <<bvars, nvars, avars, rvars, fvars>>

NextT == Translate \/ RouteOne

SpecT == InitT /\ [][NextT]_vars

(***************************************************************************)
(* The state before any run: a fresh builder, nothing translated, named,   *)
(* advertised or added to a registry.                                      *)
(***************************************************************************)
Init ==
    /\ uri = <<>>
    /\ tpc = "idle"
    /\ href = NoOutcome
    /\ trouter = NoRoute
    /\ BuilderNew
    /\ NamingIdle
    /\ AdvertiserIdle
    /\ RegistryIdle
    /\ FormIdle

(***************************************************************************)
(* The naming run: Servients are built one after the other and each gets   *)
(* its instance name.  Uuid::new_v4() is a generator of fresh identifiers: *)
(* it never returns an identifier it returned before.                      *)
(***************************************************************************)
Titles ==
    { ThingTitle,
      <<"m", "y">>,
      <<" ", "\t", "M", "Y", "\n", "L", "a", "m", "p">>,
      <<"L", "A", "M", "P">>,
      <<>>,
      <<" ", "\t">> }

Issued == {servients[i].uuid : i \in 1..Len(servients)}

\* let name = { .. format!("{}{}", name, uuid.as_simple()) };
name_servient(t) ==
    /\ Len(servients) < MaxServients
    /\ \E uuid \in Uuids \ Issued :
          servients' = Append(servients,
                              [title |-> t, uuid |-> uuid, name |-> InstanceName(t, uuid)])
    /\ UNCHANGED <<tvars, bvars, avars, rvars, fvars>>

NextN == \E t \in Titles : name_servient(t)

SpecN == Init /\ [][NextN]_vars

(***************************************************************************)
(* The advertiser run: an Advertiser is created, services are added to it, *)
(* configured and built.                                                   *)
(***************************************************************************)
ServiceNames == {<<"l", "a", "m", "p">>}

ServicePorts == {3000}

ServicePaths == {<<"/", "t", "e", "s", "t", "/", "p", "a", "t", "h">>}

ServiceHostnames == {<<"t", "e", "s", "t", "h", "o", "s", "t">>}

ServiceIps == {<<"10.0.0.1">>}

\* The builder state the advertiser does not touch.
cvars == <<title, forms, other, pc, thing, pending, router, json, layered, result,
           servient, listener, binds>>

\* let ad = Advertiser::new()
new_advertiser ==
    /\ apc = "idle"
    /\ \E host \in DetectedHostnames, fails \in AdvertiserFailures \cup {"none"} :
          LET o == Advertiser_new(host, fails)
          IN  /\ daemon' = IF o.spawned THEN "spawned" ELSE daemon
              /\ detected' = IF fails \in {"none", "ips"} THEN host ELSE detected
              /\ sd' = o.ad
              /\ apc' = IF o.ok THEN "ready" ELSE "failed"
    /\ UNCHANGED <<sb, given, service, mdns>>
    /\ UNCHANGED <<tvars, cvars, nvars, rvars, fvars>>

\* ad.add_service(name)
call_add_service(name) ==
    /\ apc \in {"ready", "registered", "build_failed"}
    /\ Cardinality(mdns) < MaxServices
    /\ sb' = add_service(sd, name)
    /\ given' = NoGiven
    /\ apc' = "builder"
    /\ UNCHANGED <<detected, service, sd, mdns, daemon>>
    /\ UNCHANGED <<tvars, cvars, nvars, rvars, fvars>>

call_thing_type(ty) ==
    /\ apc = "builder"
    /\ sb' = ServiceBuilder_thing_type(sb, ty)
    /\ given' = [given EXCEPT !.ty = Some(ty)]
    /\ UNCHANGED <<apc, detected, service, sd, mdns, daemon>>
    /\ UNCHANGED <<tvars, cvars, nvars, rvars, fvars>>

call_port(port) ==
    /\ apc = "builder"
    /\ sb' = ServiceBuilder_port(sb, port)
    /\ given' = [given EXCEPT !.port = Some(port)]
    /\ UNCHANGED <<apc, detected, service, sd, mdns, daemon>>
    /\ UNCHANGED <<tvars, cvars, nvars, rvars, fvars>>

call_path(path) ==
    /\ apc = "builder"
    /\ sb' = ServiceBuilder_path(sb, path)
    /\ given' = [given EXCEPT !.path = Some(path)]
    /\ UNCHANGED <<apc, detected, service, sd, mdns, daemon>>
    /\ UNCHANGED <<tvars, cvars, nvars, rvars, fvars>>

call_hostname(host) ==
    /\ apc = "builder"
    /\ sb' = ServiceBuilder_hostname(sb, host)
    /\ given' = [given EXCEPT !.hostname = Some(host)]
    /\ UNCHANGED <<apc, detected, service, sd, mdns, daemon>>
    /\ UNCHANGED <<tvars, cvars, nvars, rvars, fvars>>

call_ips(ips) ==
    /\ apc = "builder"
    /\ sb' = ServiceBuilder_ips(sb, ips)
    /\ given' = [given EXCEPT !.ips = Some(ips)]
    /\ UNCHANGED <<apc, detected, service, sd, mdns, daemon>>
    /\ UNCHANGED <<tvars, cvars, nvars, rvars, fvars>>

\* .build(): the builder is consumed.
call_build ==
    /\ apc = "builder"
    /\ \E ok \in BOOLEAN :
          LET o == ServiceBuilder_build(mdns, sb, ok)
          IN  /\ mdns' = o.registered
              /\ service' = IF ok THEN ServiceInfoOf(sb) ELSE service
              /\ apc' = IF o.ok THEN "registered" ELSE "build_failed"
    /\ sb' = NoBuilder
    /\ UNCHANGED <<detected, given, sd, daemon>>
    /\ UNCHANGED <<tvars, cvars, nvars, rvars, fvars>>

NextA ==
    \/ new_advertiser
    \/ \E name \in ServiceNames : call_add_service(name)
    \/ \E ty \in ThingTypes : call_thing_type(ty)
    \/ \E port \in ServicePorts : call_port(port)
    \/ \E path \in ServicePaths : call_path(path)
    \/ \E host \in ServiceHostnames : call_hostname(host)
    \/ \E ips \in ServiceIps : call_ips(ips)
    \/ call_build

SpecA == Init /\ [][NextA]_vars

(***************************************************************************)
(* The registry run: values are added to a registry and its base field is  *)
(* written through Holder.                                                 *)
(***************************************************************************)
\* registry.ext(value)
call_ext(v) ==
    /\ Len(exts) < MaxExts
    /\ reg' = ext(reg, v)
    /\ exts' = Append(exts, v)
    /\ UNCHANGED stored
    /\ UNCHANGED <<tvars, bvars, nvars, avars, fvars>>

\* registry.field_mut() written with d, where Holder<BaseType> is implemented.
call_field_mut(d) ==
    /\ HolderImpl(TypeOf(reg), BaseType)
    /\ reg' = field_mut(reg, d)
    /\ stored' = d
    /\ UNCHANGED exts
    /\ UNCHANGED <<tvars, bvars, nvars, avars, fvars>>

NextR ==
    \/ \E v \in ExtValues : call_ext(v)
    \/ \E d \in Data : call_field_mut(d)

SpecR == Init /\ [][NextR]_vars

(***************************************************************************)
(* The form run: http_* calls are made on one form builder.  HttpRouter is *)
(* implemented for FormBuilder only, so the ServientFormBuilder an http_*  *)
(* call returns is converted back before the next call.                    *)
(***************************************************************************)
\* What every http_* call needs: a live FormBuilder in hand.
Callable ==
    /\ fb.alive
    /\ fb.wrapper = "FormBuilder"
    /\ Len(bound) < MaxCalls

\* fb.http_get(handler)
call_http_get(h) ==
    /\ Callable
    /\ fb' = http_get(fb, h)
    /\ bound' = Append(bound, [verb |-> "GET", handler |-> h])
    /\ UNCHANGED <<tvars, bvars, nvars, avars, rvars>>

\* fb.http_put(handler)
call_http_put(h) ==
    /\ Callable
    /\ fb' = http_put(fb, h)
    /\ bound' = Append(bound, [verb |-> "PUT", handler |-> h])
    /\ UNCHANGED <<tvars, bvars, nvars, avars, rvars>>

\* fb.http_post(handler)
call_http_post(h) ==
    /\ Callable
    /\ fb' = http_post(fb, h)
    /\ bound' = Append(bound, [verb |-> "POST", handler |-> h])
    /\ UNCHANGED <<tvars, bvars, nvars, avars, rvars>>

\* fb.http_patch(handler)
call_http_patch(h) ==
    /\ Callable
    /\ fb' = http_patch(fb, h)
    /\ bound' = Append(bound, [verb |-> "PATCH", handler |-> h])
    /\ UNCHANGED <<tvars, bvars, nvars, avars, rvars>>

\* fb.http_delete(handler)
call_http_delete(h) ==
    /\ Callable
    /\ fb' = http_delete(fb, h)
    /\ bound' = Append(bound, [verb |-> "DELETE", handler |-> h])
    /\ UNCHANGED <<tvars, bvars, nvars, avars, rvars>>

\* FormBuilder::from(fb)
call_from ==
    /\ fb.alive
    /\ fb.wrapper = "ServientFormBuilder"
    /\ fb' = FormBuilder_from(fb)
    /\ UNCHANGED bound
    /\ UNCHANGED <<tvars, bvars, nvars, avars, rvars>>

NextF ==
    \/ \E h \in Handlers : call_http_get(h)
    \/ \E h \in Handlers : call_http_put(h)
    \/ \E h \in Handlers : call_http_post(h)
    \/ \E h \in Handlers : call_http_patch(h)
    \/ \E h \in Handlers : call_http_delete(h)
    \/ call_from

SpecF == Init /\ [][NextF]_vars

(***************************************************************************)
(* The servient: a builder is assembled, build_servient compiles it and    *)
(* serve runs the Servient.                                                *)
(***************************************************************************)
Next ==
    \/ \E f \in FormPool : form(f)
    \/ \E a \in BindAddrs : http_bind(a)
    \/ \E ty \in ThingTypes : thing_type(ty)
    \/ http_disable_permissive_cors
    \/ build
    \/ route_form
    \/ serialize
    \/ route_root
    \/ route_well_known
    \/ layer_cors
    \/ advertiser_new
    \/ finish
    \/ serve_advertise
    \/ serve_listen

Spec == Init /\ [][Next]_vars

(***************************************************************************)
(* Properties of the translator.                                           *)
(***************************************************************************)
Translated == tpc # "start"

Components == UriTemplateNew(uri)

IsSimple(c) == c.type = "VarList" /\ c.op = "Null" /\ Len(c.varspec) = 1

IsMultiSimple(c) == c.type = "VarList" /\ c.op = "Null" /\ Len(c.varspec) > 1

IsStop(c) == c.type = "VarList" /\ c.op \in {"Question", "Hash"}

\* The text a component of literals and one-variable simple expressions stands for.
InPlace(c) == IF c.type = "Literal" THEN c.l ELSE <<":">> \o c.varspec[1]

\* The text a component of literals and path expressions stands for.
Segments(c) ==
    IF c.type = "Literal" THEN c.l
    ELSE Concat([i \in 1..Len(c.varspec) |-> <<"/", ":">> \o c.varspec[i]])

AxumTemplatedUri ==
    <<"/","a","c","t","i","o","n","s","/","f","a","d","e","/",":","a","c","t","i","o","n","_","i","d">>

AxumHierarchicalUri ==
    <<"/","p","r","o","p","e","r","t","i","e","s","/",":","p","r","o","p","/",":","s","u","b">>

AxumQueryUri == <<"/","w","e","a","t","h","e","r","/">>

\* C7: literal text is copied verbatim and a simple expression with exactly one
\* variable becomes ":<name>" in place: a template without "{" translates to itself, a
\* template of literals and one-variable simple expressions translates to the
\* concatenation of the literals and the ":<name>"s in template order;
\* "/properties/on" gives "/properties/on" and "/actions/fade/{action_id}" gives
\* "/actions/fade/:action_id".
C7_LiteralAndSimple ==
    Translated =>
        LET comps == Components
        IN  /\ (~Contains(uri, "{") => href = Returned(uri))
            /\ ((\A i \in 1..Len(comps) : comps[i].type = "Literal" \/ IsSimple(comps[i]))
                => href = Returned(Concat([i \in 1..Len(comps) |-> InPlace(comps[i])])))
            /\ (uri = PlainUri => href = Returned(PlainUri))
            /\ (uri = TemplatedUri => href = Returned(AxumTemplatedUri))

C7_Witness == tpc = "routed" /\ uri = TemplatedUri /\ href.path = AxumTemplatedUri

\* C8: a path expression {/v1,...,vn} becomes one segment "/:vi" per variable, in the
\* listed order: a template of literals and path expressions translates to the
\* concatenation of the literals and the segments; "/properties{/prop,sub}" gives
\* "/properties/:prop/:sub".
C8_PathExpression ==
    Translated =>
        LET comps == Components
        IN  /\ ((\A i \in 1..Len(comps) : comps[i].type = "Literal" \/ comps[i].op = "Slash")
                => href = Returned(Concat([i \in 1..Len(comps) |-> Segments(comps[i])])))
            /\ (uri = HierarchicalUri => href = Returned(AxumHierarchicalUri))
            /\ (uri = <<"{", "/", "b", ",", "a", "}">>
                => href = Returned(<<"/", ":", "b", "/", ":", "a">>))

C8_Witness == tpc = "routed" /\ uri = HierarchicalUri /\ href.path = AxumHierarchicalUri

\* The first query or fragment expression of the template, 0 when it has none.
FirstStop ==
    LET comps == Components
    IN  IF \E i \in 1..Len(comps) : IsStop(comps[i])
        THEN CHOOSE i \in 1..Len(comps) :
                 IsStop(comps[i]) /\ \A j \in 1..(i - 1) : ~IsStop(comps[j])
        ELSE 0

\* C9: translation ends at the first query or fragment expression: the outcome is the
\* outcome of translating the components before it, whatever follows;
\* "/weather/{?lat,long}" gives "/weather/".
C9_QueryEndsTranslation ==
    LET stop == FirstStop
    IN  (Translated /\ stop > 0) =>
            /\ href = TranslateFrom(SubSeq(Components, 1, stop - 1), 1, <<>>)
            /\ (uri = QueryUri => href = Returned(AxumQueryUri))

C9_Witness ==
    /\ tpc = "routed"
    /\ FirstStop > 0
    /\ FirstStop < Len(Components)
    /\ href.path # <<>>

\* C10 as stated: every template that contains a multi-variable simple expression
\* fails to translate.
C10_Original ==
    (Translated /\ \E i \in 1..Len(Components) : IsMultiSimple(Components[i]))
        => href.panic

\* C10: a template with a multi-variable simple expression that no query or fragment
\* expression precedes fails to translate: no path is produced, in particular not
\* the one that uses the first variable only, and no route is registered.
C10_MultiVariableFails ==
    (Translated /\ LET comps == Components
                       stop  == FirstStop
                   IN  \E i \in 1..Len(comps) :
                           IsMultiSimple(comps[i]) /\ (stop = 0 \/ i < stop))
        => /\ href.panic
           /\ href.path = <<>>
           /\ tpc = "panicked"
           /\ trouter = NoRoute

C10_Witness == tpc = "panicked" /\ uri = <<"{", "a", ",", "b", "}">> /\ href.panic

IsUnsupported(c) == c.type = "VarList" /\ c.op \in {"Dot", "Semi", "Plus", "Ampersand"}

\* A simple expression that fails the assertion of the Operator::Null arm.
IsAssertFail(c) == c.type = "VarList" /\ c.op = "Null" /\ Len(c.varspec) # 1

Built == result.kind = "ok"

FormIndices == 1..Len(forms)

\* The translated hrefs of the registered forms.
TranslatedHrefs == {uritemplate_to_axum(forms[i].href).path : i \in FormIndices}

\* The verbs of the registered forms whose href translates to path.
VerbsDeclaredAt(path) ==
    UNION {DOMAIN forms[i].method_router :
              i \in {j \in FormIndices : uritemplate_to_axum(forms[j].href) = Returned(path)}}

FixedPaths == {Root, WELL_KNOWN}

\* C1 as stated: for a schema with forms of several kinds, the paths of the route
\* table of a built Servient are exactly the translated hrefs, each with exactly the
\* verbs of the forms declared against it.
C1_Original ==
    (Built /\ \E i, j \in FormIndices : forms[i].kind # forms[j].kind) =>
        /\ DOMAIN servient.router = TranslatedHrefs
        /\ \A p \in DOMAIN servient.router :
               DOMAIN servient.router[p] = VerbsDeclaredAt(p)

\* C1: when the routing loop has visited every form the paths of the route table are
\* exactly the translated hrefs; the route table of a built Servient holds these and
\* the two fixed paths "/" and "/.well-known/wot"; each path exposes the union of the
\* verbs of the forms declared against it (and GET on the two fixed paths), each verb
\* with the handler of the form that bound it.
C1_RouteTable ==
    /\ (pc = "route" /\ pending = {}) =>
           /\ DOMAIN router = TranslatedHrefs
           /\ \A p \in DOMAIN router : DOMAIN router[p] = VerbsDeclaredAt(p)
    /\ Built =>
           /\ DOMAIN servient.router = TranslatedHrefs \cup FixedPaths
           /\ \A p \in DOMAIN servient.router :
                  DOMAIN servient.router[p] =
                      VerbsDeclaredAt(p) \cup (IF p \in FixedPaths THEN {"GET"} ELSE {})
           /\ \A i \in FormIndices : \A v \in DOMAIN forms[i].method_router :
                  servient.router[uritemplate_to_axum(forms[i].href).path][v]
                      = forms[i].method_router[v]

\* Two forms of different kinds with different hrefs share one translated path.
C1_Witness ==
    /\ Built
    /\ Len(forms) = 2
    /\ forms[1].href # forms[2].href
    /\ forms[1].kind # forms[2].kind
    /\ Cardinality(TranslatedHrefs) = 1
    /\ \E p \in TranslatedHrefs : Cardinality(DOMAIN servient.router[p]) = 2

\* C2 as stated: a build_servient that fails in schema finalization, href
\* translation, serialization or advertiser start-up has returned an error result and
\* no Servient, and a returned Servient is built from the whole schema.
C2_AllOrNothing ==
    /\ (pc = "done" /\ result.step \in {"build", "translate", "serialize", "advertiser"})
           => (result.kind = "err" /\ servient = NoServient)
    /\ Built => (pending = {} /\ servient.thing.forms = forms)

\* The record serve registers for the Servient.
IsServientRecord(rec) ==
    /\ rec.name = servient.name
    /\ rec.port = servient.http_addr.port
    /\ rec.domain = <<to_service_type(servient.thing_type), "._tcp.local.">>
    /\ rec.props["type"] = <<"type", to_dns_type(servient.thing_type)>>

\* C3: the listener is bound only after the service was registered with the thing
\* type and the port of the Servient; after a failed advertisement the listener is
\* never started.
C3_AdvertiseBeforeListen ==
    /\ listener # "none" => \E rec \in mdns : IsServientRecord(rec)
    /\ pc \in {"advertised", "serving"} => \E rec \in mdns : IsServientRecord(rec)
    /\ mdns = {} => listener = "none"

C3_Witness ==
    /\ pc = "serving"
    /\ listener = "listening"
    /\ servient.thing_type = "Directory"
    /\ servient.http_addr.port # DefaultPort

\* The forms of one kind as they were registered: href and method name, in order.
Registered(kind) ==
    LET idx == {i \in FormIndices : forms[i].kind = kind}
    IN  {<<Cardinality({j \in idx : j <= i}), forms[i].href, forms[i].method_name>> : i \in idx}

Listed(docforms) ==
    {<<i, docforms[i].href, docforms[i].method_name>> : i \in 1..Len(docforms)}

\* C4: GET / of a built Servient answers with the serialized Thing, whose top-level
\* forms, properties, actions and events are exactly the registered ones, whatever
\* the order in which the forms were routed and whatever form shares the path "/".
C4_RootServesDocument ==
    Built =>
        /\ Root \in DOMAIN servient.router
        /\ "GET" \in DOMAIN servient.router[Root]
        /\ LET h == servient.router[Root]["GET"]
           IN  /\ h.kind = "json"
               /\ h.doc.title = title
               /\ Listed(h.doc.forms) = Registered("thing")
               /\ Listed(h.doc.properties) = Registered("property")
               /\ Listed(h.doc.actions) = Registered("action")
               /\ Listed(h.doc.events) = Registered("event")

\* A form is declared against "/" itself, beside a form of another kind.
C4_Witness ==
    /\ Built
    /\ Len(forms) = 2
    /\ \E i \in FormIndices : forms[i].href = Root
    /\ \E i \in FormIndices : forms[i].kind = "event"
    /\ DOMAIN servient.router[Root] = {"GET", "PUT"}

\* C5: GET /.well-known/wot of a built Servient answers with the redirect to "/",
\* also when a form is declared against that path.
C5_WellKnownRedirects ==
    Built =>
        /\ WELL_KNOWN \in DOMAIN servient.router
        /\ "GET" \in DOMAIN servient.router[WELL_KNOWN]
        /\ servient.router[WELL_KNOWN]["GET"] = RedirectToRoot

C5_Witness ==
    /\ Built
    /\ \E i \in FormIndices : forms[i].href = WELL_KNOWN
    /\ DOMAIN servient.router[WELL_KNOWN] = {"GET", "DELETE"}

\* C6: with the permissive-CORS flag set (the default) every route of a built
\* Servient carries the CORS layer, the form routes, "/" and "/.well-known/wot"
\* included; after http_disable_permissive_cors no route carries it.
C6_CorsOnEveryRoute ==
    /\ DefaultServientExtension.permissive_cors
    /\ Built =>
           IF other.permissive_cors
           THEN /\ servient.layered = DOMAIN servient.router
                /\ FixedPaths \subseteq servient.layered
                /\ TranslatedHrefs \subseteq servient.layered
           ELSE servient.layered = {}

C6_Witness ==
    /\ Built
    /\ other.permissive_cors
    /\ Len(forms) = 2
    /\ Cardinality(servient.layered) = 4

(***************************************************************************)
(* Properties of the instance name and of the bind address.                *)
(***************************************************************************)
\* tok is the first whitespace-delimited token of t, the empty string when t has none.
IsToken(tok, t) ==
    \E i \in 0..Len(t) :
        /\ \A j \in 1..i : IsWhitespace(t[j])
        /\ i + Len(tok) <= Len(t)
        /\ SubSeq(t, i + 1, i + Len(tok)) = tok
        /\ \A j \in 1..Len(tok) : ~IsWhitespace(tok[j])
        /\ (i + Len(tok) = Len(t) \/ IsWhitespace(t[i + Len(tok) + 1]))
        /\ (tok = <<>> => i = Len(t))

Substrings(t) == {SubSeq(t, a, b) : a \in 1..(Len(t) + 1), b \in 0..Len(t)}

C13_BindAddress ==
    Built =>
        servient.http_addr =
            IF binds = <<>> THEN [ip |-> "0.0.0.0", port |-> 8080] ELSE Last(binds)

C13_Witness ==
    /\ Built
    /\ Len(binds) = 2
    /\ binds[1] # binds[2]
    /\ servient.http_addr = binds[2]

(***************************************************************************)
(* Properties of the advertiser.                                           *)
(***************************************************************************)
\* The last build() succeeded: service is the record it registered and given holds
\* the settings of its builder.
Published == apc = "registered"

\* C14: a service is published under "_directory._sub._wot._tcp.local." with TXT type
\* "Directory" exactly when its thing type was set to Directory; with the default and
\* with thing type Thing it is published under "_wot._tcp.local." with TXT type
\* "Thing".
C14_ServiceType ==
    Published =>
        /\ service \in mdns
        /\ IF given.ty = Some("Directory")
           THEN /\ service.domain = <<"_directory._sub._wot", "._tcp.local.">>
                /\ service.props["type"] = <<"type", "Directory">>
           ELSE /\ service.domain = <<"_wot", "._tcp.local.">>
                /\ service.props["type"] = <<"type", "Thing">>

\* A Directory is published beside a Thing.
C14_Witness ==
    /\ Published
    /\ given.ty = Some("Directory")
    /\ service.domain[1] = "_directory._sub._wot"
    /\ \E rec \in mdns : rec.domain[1] = "_wot"

\* C15: every successful build() hands exactly one record to the daemon, no other
\* step registers anything, and the TXT properties of the record are exactly "td" and
\* "type", where "td" is the path given to path(), "/.well-known/wot" when path() was
\* not called, whatever the hostname, the thing type, the port and the ips are.
C15_OneRecordWithPath ==
    [][/\ (apc = "builder" /\ apc' = "registered") =>
              /\ mdns' = mdns \cup {service'}
              /\ service'.name = sb.name
              /\ DOMAIN service'.props = {"td", "type"}
              /\ service'.props["td"] =
                     <<"path", IF given.path = None THEN WELL_KNOWN ELSE given.path[1]>>
       /\ apc' # "registered" => mdns' = mdns]_vars

C15_Witness ==
    /\ Published
    /\ Cardinality(mdns) = 2
    /\ given.path # None
    /\ given.hostname # None
    /\ given.ty = Some("Directory")
    /\ given.port # None
    /\ given.ips # None
    /\ service.props["td"][2] # WELL_KNOWN

\* C19 as stated: the target host of every registered record ends with ".local".
C19_Original == \A rec \in mdns : EndsWith(rec.hostname, DotLocal)

\* C19: the hostname of the Advertiser is the detected hostname with ".local" appended
\* exactly when the detected name does not end with it, so it always ends with
\* ".local" and the suffix is not doubled; the target host of a registered record is
\* that name when hostname() was not called on the builder, and the name given to
\* hostname(), as it was given, otherwise.
C19_LocalHostname ==
    /\ sd.running =>
           /\ EndsWith(detected, DotLocal) => sd.hostname = detected
           /\ ~EndsWith(detected, DotLocal) => sd.hostname = detected \o DotLocal
           /\ EndsWith(sd.hostname, DotLocal)
    /\ Published =>
           /\ given.hostname = None =>
                  (service.hostname = sd.hostname /\ EndsWith(service.hostname, DotLocal))
           /\ given.hostname # None => service.hostname = given.hostname[1]

C19_Witness ==
    /\ Published
    /\ given.hostname = None
    /\ EndsWith(detected, DotLocal)
    /\ service.hostname = detected

(***************************************************************************)
(* Properties of the capability registry.                                  *)
(***************************************************************************)
Reverse(s) == [i \in 1..Len(s) |-> s[Len(s) + 1 - i]]

\* The base field as the application last wrote it.
BaseField == [ty |-> BaseType, data |-> stored]

NodeTypes == <<TypeOf(reg).field>> \o TypeOf(reg).cons

\* C17: no registry that can be constructed has two nodes of the same capability
\* type, the base type included, so that a lookup never has several nodes of its type
\* to pick from.
C17_NoDuplicateCapability ==
    \A i, j \in 1..Len(NodeTypes) : i # j => NodeTypes[i] # NodeTypes[j]

\* The type at position p that is composed of T's, U's and V's payloads for p.
Uniform(rt, p) ==
    IF rt.cons = <<>> THEN NilPlusT(Assoc(rt.field, p))
    ELSE ConsPlusT(Assoc(rt.field, p), Assoc(Head(rt.cons), p), ListAt(Tail(rt.cons), p))

\* C18: at each of the nine positions the type of the registry is composed of the
\* payload of the base, of the head and of the rest of the chain for that same
\* position.
C18_UniformPropagation ==
    \A p \in Positions : PositionType(TypeOf(reg), p) = Uniform(TypeOf(reg), p)

(***************************************************************************)
(* Properties of the order of the steps of build_servient.                 *)
(***************************************************************************)
\* The steps of build_servient that stand before Advertiser::new().
EarlierSteps == {"build", "translate", "route", "serialize", "root", "well_known"}

\* C20: the advertiser's daemon is spawned only after the schema was finalized, every
\* form was translated and routed and the document was serialized; a build_servient
\* that failed in one of these steps has spawned no daemon, created no Advertiser,
\* registered no service and started no listener.
C20_DaemonAfterEarlierSteps ==
    /\ daemon = "spawned" =>
           /\ thing = [title |-> title, forms |-> forms, other |-> other]
           /\ pending = {}
           /\ TranslatedHrefs \subseteq DOMAIN router
           /\ json = to_value(thing)
           /\ pc \notin {"assemble", "route", "root", "well_known", "cors", "advertiser"}
    /\ (pc = "done" /\ result.step \in EarlierSteps) =>
           /\ daemon = "none"
           /\ sd = NoAdvertiser
           /\ servient = NoServient
           /\ mdns = {}
           /\ listener = "none"
    /\ sd.running => daemon = "spawned"

\* The serialization failed after two forms were routed.
C20_Witness ==
    /\ pc = "done"
    /\ result = [kind |-> "err", step |-> "serialize"]
    /\ Len(forms) = 2
    /\ Cardinality(DOMAIN router) = 2
    /\ daemon = "none"

(***************************************************************************)
(* Verb accumulation on a form builder.                                    *)
(***************************************************************************)
\* The verbs of the first n http_* calls.
BoundVerbs(n) == {bound[i].verb : i \in 1..n}

\* Some verb was bound by two of the calls.
VerbRepeated == \E i, j \in 1..Len(bound) : i < j /\ bound[i].verb = bound[j].verb

\* C21 as stated: after any sequence of http_get / http_put / http_post / http_patch /
\* http_delete calls on one form builder, the form's verb-to-handler table holds a
\* handler for every verb that was bound, and the form's method name is the verb of
\* the last call.
C21_Original ==
    /\ \A i \in 1..Len(bound) : bound[i].verb \in DOMAIN fb.method_router
    /\ (bound # <<>> => fb.method_name = Last(bound).verb)

\* C21: a call that binds a verb the form already binds panics and leaves no form.
\* After any sequence of http_* calls that bind pairwise different verbs, the form's
\* verb-to-handler table holds exactly the verbs that were bound, each with the handler
\* of its call (no later call drops or replaces an earlier binding), and the form's
\* method name is the verb of the last call only.
C21_VerbAccumulation ==
    /\ fb.alive <=> ~VerbRepeated
    /\ fb.alive =>
           /\ DOMAIN fb.method_router = BoundVerbs(Len(bound))
           /\ \A i \in 1..Len(bound) : fb.method_router[bound[i].verb] = bound[i].handler
           /\ fb.method_name = (IF bound = <<>> THEN "None" ELSE Last(bound).verb)
    /\ ~fb.alive => (Last(bound).verb \in BoundVerbs(Len(bound) - 1))

\* http_get then http_put, as in the test build_servient_property: both verbs are in
\* the table and the method name is PUT only.
C21_Witness ==
    /\ fb.alive
    /\ Len(bound) = 2
    /\ bound[1].verb = "GET"
    /\ bound[2].verb = "PUT"
    /\ DOMAIN fb.method_router = {"GET", "PUT"}
    /\ fb.method_name = "PUT"

====
